---- MODULE Spec2Model ----
(***************************************************************************)
(* azkeyget: a run of the CLI (flag registration with environment          *)
(* defaults, cobra's Execute, getSecret with createCredential and the      *)
(* Key Vault calls), and the two environment helpers called on their own.  *)
(* The program text is the Go listing embedded in src/README.md.           *)
(*                                                                         *)
(* Strings built with fmt.Errorf / log.Printf are modelled as tuples of    *)
(* fragments: the static pieces of the format string and the formatted     *)
(* arguments, in order.  "contains" is containment of a fragment.          *)
(***************************************************************************)
EXTENDS Naturals, Sequences, FiniteSets, TLC

VARIABLES
    env,            \* process environment: variable name -> value (unset = not in DOMAIN)
    args,           \* command line: flag name -> value as written (not passed = not in DOMAIN)
    vaultURL, secretName, authMethod, clientID, clientSecret, tenantID,
    userAssignedID, debug,      \* the package-level configuration variables
    pc,             \* position of the run
    credential, err, \* getSecret's locals: the credential, and the error of the last call
    calls,          \* calls made into azidentity / azsecrets, in order
    stdout, stderr, \* writes to the two output channels, in order
    response,       \* result of client.GetSecret held by getSecret
    exitCode,       \* process exit code, NoExit while running
    exitAt,         \* the return that ended the run, "" while running
    call, result    \* a helper called on its own: its arguments and its return value

config == <<vaultURL, secretName, authMethod, clientID, clientSecret, tenantID,
            userAssignedID, debug>>
vars == <<env, args, vaultURL, secretName, authMethod, clientID, clientSecret,
          tenantID, userAssignedID, debug, pc, credential, err, calls, stdout,
          stderr, response, exitCode, exitAt, call, result>>

----------------------------------------------------------------------------
(* Bounds of the inputs *)

\* most environment variables set at once in the resolver's inputs
MaxEnvSet == 1
\* most flags passed at once in the resolver's inputs
MaxFlags == 1

----------------------------------------------------------------------------
(* Values *)

Empty == <<>>
NoErr == <<>>
NilCred == [ctor |-> "nil", args |-> <<>>]
NoResponse == [Value |-> <<>>]
NoExit == 2
NoCall == [fn |-> "none", envVar |-> "", defaultValue |-> FALSE]

StringFlags == {"vault-url", "secret", "auth", "client-id", "client-secret",
                "tenant-id", "user-assigned-id"}

\* the environment variable each flag registration reads
EnvName(flag) ==
    CASE flag = "vault-url" -> "AZURE_KEYVAULT_URL"
      [] flag = "secret" -> "AZURE_KEYVAULT_SECRET_NAME"
      [] flag = "auth" -> "AZURE_AUTH_METHOD"
      [] flag = "client-id" -> "AZURE_CLIENT_ID"
      [] flag = "client-secret" -> "AZURE_CLIENT_SECRET"
      [] flag = "tenant-id" -> "AZURE_TENANT_ID"
      [] flag = "user-assigned-id" -> "AZURE_USER_ASSIGNED_ID"
      [] flag = "debug" -> "AZURE_DEBUG"

\* the static default each flag registration passes
StaticDefault(flag) == IF flag = "auth" THEN "default" ELSE ""

----------------------------------------------------------------------------
(* The environment helpers *)

\* os.Getenv: the value, or "" when the variable is not set
Getenv(e, envVar) == IF envVar \in DOMAIN e THEN e[envVar] ELSE ""

getEnvOrDefault(e, envVar, defaultValue) ==
    IF Getenv(e, envVar) # "" THEN Getenv(e, envVar) ELSE defaultValue

\* a value that matches no literal falls through to the default
getEnvOrDefaultBool_fallthrough(e, envVar, defaultValue) ==
    IF Getenv(e, envVar) \in {"true", "1", "yes", "on"}
    THEN TRUE
    ELSE defaultValue

\* the variable is tested for being set, not for being non-empty
getEnvOrDefaultBool_lookup(e, envVar, defaultValue) ==
    IF envVar \in DOMAIN e
    THEN e[envVar] \in {"true", "1", "yes", "on"}
    ELSE defaultValue

getEnvOrDefaultBool(e, envVar, defaultValue) ==
    IF Getenv(e, envVar) # ""
    THEN Getenv(e, envVar) \in {"true", "1", "yes", "on"}
    ELSE defaultValue

----------------------------------------------------------------------------
(* Formatting *)

\* %t
FmtBool(b) == IF b THEN "true" ELSE "false"

\* debugLog: one line on the logger (standard error) when debug is on, nothing
\* otherwise.  The logger's timestamp (log.LstdFlags | log.Lmicroseconds) is
\* left out of the line: no property here reads the clock.
debugLog(parts) == IF debug THEN << <<"[DEBUG] azkeyget: ">> \o parts >> ELSE <<>>

\* strings.Contains at the granularity of fragments
Contains(msg, fragment) == \E i \in 1..Len(msg) : msg[i] = fragment

\* strings.Contains for a text of several consecutive fragments
ContainsSeq(msg, sub) ==
    \E i \in 0..(Len(msg) - Len(sub)) : SubSeq(msg, i + 1, i + Len(sub)) = sub


----------------------------------------------------------------------------
(* The identity library (azidentity), an external collaborator: a          *)
(* constructor either returns a credential or an error of its own.         *)

LibOutcomes == {"ok", "fail"}

Construct(fn, a, lib) ==
    IF lib = "ok"
    THEN [credential |-> [ctor |-> fn, args |-> a], err |-> NoErr,
          calls |-> << [fn |-> fn, args |-> a] >>]
    ELSE [credential |-> NilCred, err |-> <<"azidentity: ", fn, " failed">>,
          calls |-> << [fn |-> fn, args |-> a] >>]

\* a return of (nil, fmt.Errorf(...)) without calling the library
Invalid(msg) == [credential |-> NilCred, err |-> msg, calls |-> <<>>]

----------------------------------------------------------------------------
(* createCredential: the switch on authMethod.  Each branch yields the     *)
(* returned credential and error, the library calls made and the debug     *)
(* lines logged.                                                           *)

WithLog(r, log) == [credential |-> r.credential, err |-> r.err, calls |-> r.calls, log |-> log]

caseDefault(lib) ==
    WithLog(Construct("azidentity.NewDefaultAzureCredential", <<>>, lib),
            debugLog(<<"Using DefaultAzureCredential">>))

\* a client ID that happens to be set is passed as the identity
caseSystemMI_usesClientID(lib) ==
    WithLog(Construct("azidentity.NewManagedIdentityCredential",
                      IF clientID # "" THEN <<clientID>> ELSE <<>>, lib),
            debugLog(<<"Using system managed identity">>))

caseSystemMI(lib) ==
    WithLog(Construct("azidentity.NewManagedIdentityCredential", <<>>, lib),
            debugLog(<<"Using system managed identity">>))

\* clientID consulted before userAssignedID
caseUserMI_clientFirst(lib) ==
    IF clientID # ""
    THEN WithLog(Construct("azidentity.NewManagedIdentityCredential", <<clientID>>, lib),
                 debugLog(<<"Using user-assigned managed identity with client ID: ", clientID>>))
    ELSE IF userAssignedID # ""
    THEN WithLog(Construct("azidentity.NewManagedIdentityCredential", <<userAssignedID>>, lib),
                 debugLog(<<"Using user-assigned managed identity with ID: ", userAssignedID>>))
    ELSE WithLog(Invalid(<<"user-assigned managed identity ", "requires --client-id or --user-assigned-id">>),
                 debugLog(<<"User-assigned managed identity requires client ID or user-assigned ID">>))

\* no identity given falls back to the system-assigned identity
caseUserMI_fallback(lib) ==
    IF userAssignedID # ""
    THEN WithLog(Construct("azidentity.NewManagedIdentityCredential", <<userAssignedID>>, lib),
                 debugLog(<<"Using user-assigned managed identity with ID: ", userAssignedID>>))
    ELSE IF clientID # ""
    THEN WithLog(Construct("azidentity.NewManagedIdentityCredential", <<clientID>>, lib),
                 debugLog(<<"Using user-assigned managed identity with client ID: ", clientID>>))
    ELSE WithLog(Construct("azidentity.NewManagedIdentityCredential", <<>>, lib),
                 debugLog(<<"User-assigned managed identity requires client ID or user-assigned ID">>))

caseUserMI(lib) ==
    IF userAssignedID # ""
    THEN WithLog(Construct("azidentity.NewManagedIdentityCredential", <<userAssignedID>>, lib),
                 debugLog(<<"Using user-assigned managed identity with ID: ", userAssignedID>>))
    ELSE IF clientID # ""
    THEN WithLog(Construct("azidentity.NewManagedIdentityCredential", <<clientID>>, lib),
                 debugLog(<<"Using user-assigned managed identity with client ID: ", clientID>>))
    ELSE WithLog(Invalid(<<"user-assigned managed identity ", "requires --client-id or --user-assigned-id">>),
                 debugLog(<<"User-assigned managed identity requires client ID or user-assigned ID">>))

\* the debug line of the service principal prints the client secret too
caseServicePrincipal_logsSecret(lib) ==
    IF clientID = "" \/ clientSecret = "" \/ tenantID = ""
    THEN WithLog(Invalid(<<"service principal authentication ",
                         "requires --client-id, --client-secret, and --tenant-id">>),
                 debugLog(<<"Service principal authentication missing required parameters">>))
    ELSE WithLog(Construct("azidentity.NewClientSecretCredential",
                           <<tenantID, clientID, clientSecret>>, lib),
                 debugLog(<<"Using service principal with client ID: ", clientID,
                            ", client secret: ", clientSecret,
                            ", tenant ID: ", tenantID>>))

\* the check fails only when all three are missing
caseServicePrincipal_allMissing(lib) ==
    IF clientID = "" /\ clientSecret = "" /\ tenantID = ""
    THEN WithLog(Invalid(<<"service principal authentication ",
                         "requires --client-id, --client-secret, and --tenant-id">>),
                 debugLog(<<"Service principal authentication missing required parameters">>))
    ELSE WithLog(Construct("azidentity.NewClientSecretCredential",
                           <<tenantID, clientID, clientSecret>>, lib),
                 debugLog(<<"Using service principal with client ID: ", clientID,
                            ", tenant ID: ", tenantID>>))

\* client ID and tenant ID passed in each other's place
caseServicePrincipal_swapped(lib) ==
    IF clientID = "" \/ clientSecret = "" \/ tenantID = ""
    THEN WithLog(Invalid(<<"service principal authentication ",
                         "requires --client-id, --client-secret, and --tenant-id">>),
                 debugLog(<<"Service principal authentication missing required parameters">>))
    ELSE WithLog(Construct("azidentity.NewClientSecretCredential",
                           <<clientID, tenantID, clientSecret>>, lib),
                 debugLog(<<"Using service principal with client ID: ", clientID,
                            ", tenant ID: ", tenantID>>))

caseServicePrincipal(lib) ==
    IF clientID = "" \/ clientSecret = "" \/ tenantID = ""
    THEN WithLog(Invalid(<<"service principal authentication ",
                         "requires --client-id, --client-secret, and --tenant-id">>),
                 debugLog(<<"Service principal authentication missing required parameters">>)
                 \o debugLog(<<"  Client ID provided: ", FmtBool(clientID # "")>>)
                 \o debugLog(<<"  Client Secret provided: ", FmtBool(clientSecret # "")>>)
                 \o debugLog(<<"  Tenant ID provided: ", FmtBool(tenantID # "")>>))
    ELSE WithLog(Construct("azidentity.NewClientSecretCredential",
                           <<tenantID, clientID, clientSecret>>, lib),
                 debugLog(<<"Using service principal with client ID: ", clientID,
                            ", tenant ID: ", tenantID>>))

caseUnsupported ==
    WithLog(Invalid(<<"unsupported authentication method", ": ", authMethod>>),
            debugLog(<<"Unsupported authentication method: ", authMethod>>))

\* the method is matched without regard to case
dispatch_foldCase(lib) ==
    CASE authMethod \in {"default", "Default"} -> caseDefault(lib)
      [] authMethod = "system-mi" -> caseSystemMI(lib)
      [] authMethod = "user-mi" -> caseUserMI(lib)
      [] authMethod = "service-principal" -> caseServicePrincipal(lib)
      [] OTHER -> caseUnsupported

dispatch(lib) ==
    CASE authMethod = "default" -> caseDefault(lib)
      [] authMethod = "system-mi" -> caseSystemMI(lib)
      [] authMethod = "user-mi" -> caseUserMI(lib)
      [] authMethod = "service-principal" -> caseServicePrincipal(lib)
      [] OTHER -> caseUnsupported

createCredential(lib) ==
    LET r == dispatch(lib)
    IN  WithLog(r, debugLog(<<"Creating credential for auth method: ", authMethod>>) \o r.log)

----------------------------------------------------------------------------
(* The inputs of a run *)

\* a flag or variable left out, or given one of vals
Opts(name, vals) == {Empty} \cup {name :> v : v \in vals}

AuthValues == {"default", "system-mi", "user-mi", "service-principal",
               "", "Default", "invalid-method"}

\* command lines of whole runs
RunArgs ==
    { v @@ s @@ a @@ c @@ cs @@ t @@ u @@ d @@ h :
        v \in Opts("vault-url", {"https://test.vault.azure.net/"}),
        s \in Opts("secret", {"test-secret"}),
        a \in Opts("auth", AuthValues),
        c \in Opts("client-id", {"test-client-id"}),
        cs \in Opts("client-secret", {"test-client-secret"}),
        t \in Opts("tenant-id", {"test-tenant-id"}),
        u \in Opts("user-assigned-id", {"test-user-assigned-id"}),
        d \in Opts("debug", {"true"}),
        h \in Opts("help", {"true"}) \cup Opts("version", {"true"}) }

\* environments of whole runs
RunEnvs ==
    { v @@ s :
        v \in Opts("AZURE_KEYVAULT_URL", {"https://env.vault.azure.net/"}),
        s \in Opts("AZURE_KEYVAULT_SECRET_NAME", {"env-secret"}) }

\* values of the environment variables and flags in the resolver's inputs
EnvValues(flag) ==
    IF flag = "debug"
    THEN {"", "true", "1", "yes", "on", "false", "TRUE", "maybe", "0"}
    ELSE IF flag = "auth" THEN {"", "system-mi"} ELSE {"", "env-value"}

FlagValues(flag) ==
    IF flag = "debug"
    THEN {"true", "false"}
    ELSE IF flag = "auth" THEN {"", "user-mi"} ELSE {"", "flag-value"}

EnvOpts(flag) == Opts(EnvName(flag), EnvValues(flag))
FlagOpts(flag) == Opts(flag, FlagValues(flag))

\* environments of the resolver: at most MaxEnvSet variables set
ResolveEnvs ==
    { e \in { v @@ s @@ a @@ c @@ cs @@ t @@ u @@ d :
                v \in EnvOpts("vault-url"), s \in EnvOpts("secret"),
                a \in EnvOpts("auth"), c \in EnvOpts("client-id"),
                cs \in EnvOpts("client-secret"), t \in EnvOpts("tenant-id"),
                u \in EnvOpts("user-assigned-id"), d \in EnvOpts("debug") } :
        Cardinality(DOMAIN e) <= MaxEnvSet }

\* command lines of the resolver: at most MaxFlags flags passed
ResolveArgs ==
    { e \in { v @@ s @@ a @@ c @@ cs @@ t @@ u @@ d :
                v \in FlagOpts("vault-url"), s \in FlagOpts("secret"),
                a \in FlagOpts("auth"), c \in FlagOpts("client-id"),
                cs \in FlagOpts("client-secret"), t \in FlagOpts("tenant-id"),
                u \in FlagOpts("user-assigned-id"), d \in FlagOpts("debug") } :
        Cardinality(DOMAIN e) <= MaxFlags }

\* inputs of a helper called on its own
HelperVars == {"TEST_BOOL_VAR", "AZURE_DEBUG"}
HelperEnvs ==
    { a @@ b : a \in Opts("TEST_BOOL_VAR", EnvValues("debug")),
               b \in Opts("AZURE_DEBUG", EnvValues("debug")) }
HelperCalls ==
    [fn : {"getEnvOrDefaultBool"}, envVar : HelperVars, defaultValue : BOOLEAN]

----------------------------------------------------------------------------
(* Initial states *)

Zero ==
    /\ vaultURL = "" /\ secretName = "" /\ authMethod = "" /\ clientID = ""
    /\ clientSecret = "" /\ tenantID = "" /\ userAssignedID = "" /\ debug = FALSE
    /\ credential = NilCred /\ err = NoErr /\ calls = <<>>
    /\ stdout = <<>> /\ stderr = <<>> /\ response = NoResponse
    /\ exitCode = NoExit /\ exitAt = "" /\ result = <<>>

\* a whole run
Init ==
    /\ env \in RunEnvs /\ args \in RunArgs
    /\ pc = "main" /\ call = NoCall /\ Zero

\* a run observed up to the start of getSecret, over the resolver's inputs
InitResolve ==
    /\ env \in ResolveEnvs /\ args \in ResolveArgs
    /\ pc = "main" /\ call = NoCall /\ Zero

\* a helper called on its own, as the unit tests call it
InitHelper ==
    /\ env \in HelperEnvs /\ args = Empty
    /\ pc = "helper" /\ call \in HelperCalls /\ Zero

----------------------------------------------------------------------------
(* main: flag registration *)

\* StringVarP(&p, name, ..., getEnvOrDefault(ENV, default), ...) stores the default in p
registered(flag) == getEnvOrDefault(env, EnvName(flag), StaticDefault(flag))

MainRegisterFlags ==
    /\ pc = "main"
    /\ vaultURL' = registered("vault-url")
    /\ secretName' = registered("secret")
    /\ authMethod' = registered("auth")
    /\ clientID' = registered("client-id")
    /\ clientSecret' = registered("client-secret")
    /\ tenantID' = registered("tenant-id")
    /\ userAssignedID' = registered("user-assigned-id")
    /\ debug' = getEnvOrDefaultBool(env, EnvName("debug"), FALSE)
    /\ pc' = "execute"
    /\ UNCHANGED <<env, args, credential, err, calls, stdout, stderr, response,
                   exitCode, exitAt, call, result>>

----------------------------------------------------------------------------
(* rootCmd.Execute (cobra): parse the flags, serve --help and --version,   *)
(* check the required flags, then run getSecret.                           *)

\* a flag is Changed when the command line passes it
Changed(flag) == flag \in DOMAIN args

\* a default taken from the environment is kept over the flag
parsed_envWins(flag, current) ==
    IF Changed(flag) /\ current = StaticDefault(flag) THEN args[flag] ELSE current

\* the value a flag's variable holds after parsing
parsed(flag, current) == IF Changed(flag) THEN args[flag] ELSE current

\* strconv.ParseBool on the values the command lines use
ParseBool(s) == s = "true"

\* only vault-url is marked required
missingRequired_vaultOnly ==
    IF Changed("vault-url") THEN <<>> ELSE <<"\"vault-url\"">>

\* MarkFlagRequired: required flags that were not Changed, in flag order
missingRequired ==
    (IF Changed("secret") THEN <<>> ELSE <<"\"secret\"">>)
    \o (IF Changed("vault-url") THEN <<>> ELSE <<"\"vault-url\"">>)

requiredErr ==
    IF Len(missingRequired) = 2
    THEN <<"required flag(s) ", missingRequired[1], ", ", missingRequired[2], " not set">>
    ELSE <<"required flag(s) ", missingRequired[1], " not set">>

\* an error returned by Execute: cobra prints it with the usage, then main
\* prints it and exits 1 (all on standard error)
errorExit(e) ==
    << <<"Error: ">> \o e, <<"Usage:">>, <<"Error: ">> \o e \o <<"\n">> >>

CobraExecute ==
    /\ pc = "execute"
    /\ vaultURL' = parsed("vault-url", vaultURL)
    /\ secretName' = parsed("secret", secretName)
    /\ authMethod' = parsed("auth", authMethod)
    /\ clientID' = parsed("client-id", clientID)
    /\ clientSecret' = parsed("client-secret", clientSecret)
    /\ tenantID' = parsed("tenant-id", tenantID)
    /\ userAssignedID' = parsed("user-assigned-id", userAssignedID)
    /\ debug' = IF Changed("debug") THEN ParseBool(args["debug"]) ELSE debug
    /\ IF Changed("help")
       THEN /\ stdout' = Append(stdout, <<"Usage:">>)
            /\ stderr' = stderr
            /\ exitCode' = 0
            /\ exitAt' = "help"
            /\ pc' = "exit"
       ELSE IF Changed("version")
       THEN /\ stdout' = Append(stdout, <<"azkeyget version ", "dev">>)
            /\ stderr' = stderr
            /\ exitCode' = 0
            /\ exitAt' = "version"
            /\ pc' = "exit"
       ELSE IF missingRequired # <<>>
       THEN /\ stdout' = stdout
            /\ stderr' = stderr \o errorExit(requiredErr)
            /\ exitCode' = 1
            /\ exitAt' = "required"
            /\ pc' = "exit"
       ELSE /\ UNCHANGED <<stdout, stderr, exitCode, exitAt>>
            /\ pc' = "getSecret"
    /\ UNCHANGED <<env, args, credential, err, calls, response, call, result>>

----------------------------------------------------------------------------
(* getSecret, split at its calls into the libraries.  A returned error     *)
(* ends the run through errorExit.                                         *)

configLog ==
    debugLog(<<"Starting azkeyget execution">>)
    \o debugLog(<<"Configuration:">>)
    \o debugLog(<<"  Vault URL: ", vaultURL>>)
    \o debugLog(<<"  Secret Name: ", secretName>>)
    \o debugLog(<<"  Auth Method: ", authMethod>>)
    \o debugLog(<<"  Debug Enabled: ", FmtBool(debug)>>)
    \o debugLog(<<"Creating credential with method: ", authMethod>>)

\* fmt.Errorf("<context>: %w", e)
credentialErr(e) == <<"failed to create credential", ": ">> \o e

\* the error of azsecrets.NewClient returned as it is
clientErr_unwrapped(e) == e

clientErr(e) == <<"failed to create Key Vault client", ": ">> \o e
secretErr(e) == <<"failed to get secret '", secretName, "'", ": ">> \o e
noValueErr == <<"secret '", secretName, "' has no value">>

\* the error is printed but the process ends normally
Return_exitZero(at, log, e) ==
    /\ stderr' = stderr \o log \o errorExit(e)
    /\ exitCode' = 0
    /\ exitAt' = at
    /\ pc' = "exit"

\* return an error from getSecret: nothing on standard output, exit code 1
Return(at, log, e) ==
    /\ stderr' = stderr \o log \o errorExit(e)
    /\ exitCode' = 1
    /\ exitAt' = at
    /\ pc' = "exit"

\* the error of createCredential is not checked
GetSecretCredential_unchecked ==
    /\ pc = "getSecret"
    /\ \E lib \in LibOutcomes :
         LET r == createCredential(lib)
         IN  /\ credential' = r.credential
             /\ err' = r.err
             /\ calls' = calls \o r.calls
             /\ stderr' = stderr \o configLog \o r.log
                          \o debugLog(<<"Successfully created credential">>)
             /\ pc' = "newClient"
             /\ UNCHANGED <<exitCode, exitAt>>
    /\ UNCHANGED <<env, args, config, stdout, response, call, result>>

GetSecretCredential ==
    /\ pc = "getSecret"
    /\ \E lib \in LibOutcomes :
         LET r == createCredential(lib)
         IN  /\ credential' = r.credential
             /\ err' = r.err
             /\ calls' = calls \o r.calls
             /\ IF r.err # NoErr
                THEN Return("credential", configLog \o r.log
                            \o debugLog(<<"Failed to create credential: ">> \o r.err),
                            credentialErr(r.err))
                ELSE /\ stderr' = stderr \o configLog \o r.log
                                  \o debugLog(<<"Successfully created credential">>)
                     /\ pc' = "newClient"
                     /\ UNCHANGED <<exitCode, exitAt>>
    /\ UNCHANGED <<env, args, config, stdout, response, call, result>>

\* azsecrets.NewClient(vaultURL, credential, nil)
NewClient(lib) ==
    [err |-> IF lib = "ok" THEN NoErr ELSE <<"azsecrets: ", "NewClient failed">>,
     calls |-> << [fn |-> "azsecrets.NewClient", args |-> <<vaultURL, credential>>] >>]

\* the error of azsecrets.NewClient is not checked
GetSecretNewClient_unchecked ==
    /\ pc = "newClient"
    /\ \E lib \in LibOutcomes :
         LET r == NewClient(lib)
             log == debugLog(<<"Creating Key Vault client for URL: ", vaultURL>>)
         IN  /\ err' = r.err
             /\ calls' = calls \o r.calls
             /\ stderr' = stderr \o log
                          \o debugLog(<<"Successfully created Key Vault client">>)
             /\ pc' = "fetch"
             /\ UNCHANGED <<exitCode, exitAt>>
    /\ UNCHANGED <<env, args, config, credential, stdout, response, call, result>>

GetSecretNewClient ==
    /\ pc = "newClient"
    /\ \E lib \in LibOutcomes :
         LET r == NewClient(lib)
             log == debugLog(<<"Creating Key Vault client for URL: ", vaultURL>>)
         IN  /\ err' = r.err
             /\ calls' = calls \o r.calls
             /\ IF r.err # NoErr
                THEN Return("client", log \o debugLog(<<"Failed to create Key Vault client: ">> \o r.err),
                            clientErr(r.err))
                ELSE /\ stderr' = stderr \o log
                                  \o debugLog(<<"Successfully created Key Vault client">>)
                     /\ pc' = "fetch"
                     /\ UNCHANGED <<exitCode, exitAt>>
    /\ UNCHANGED <<env, args, config, credential, stdout, response, call, result>>

\* what the vault may answer: an error, a response without a value, a value
SecretValues == {"s3cr3t", ""}
FetchOutcomes == {"fail", "novalue"} \cup SecretValues

\* client.GetSecret(ctx, secretName, "", nil)
GetSecret(outcome) ==
    [err |-> IF outcome = "fail" THEN <<"azsecrets: ", "GetSecret failed">> ELSE NoErr,
     response |-> IF outcome \in {"fail", "novalue"} THEN NoResponse
                  ELSE [Value |-> <<outcome>>],
     calls |-> << [fn |-> "client.GetSecret", args |-> <<secretName, "">>] >>]

GetSecretFetch ==
    /\ pc = "fetch"
    /\ \E outcome \in FetchOutcomes :
         LET r == GetSecret(outcome)
             log == debugLog(<<"Retrieving secret: ", secretName>>)
         IN  /\ err' = r.err
             /\ response' = r.response
             /\ calls' = calls \o r.calls
             /\ IF r.err # NoErr
                THEN Return("secret", log \o debugLog(<<"Failed to retrieve secret '", secretName, "': ">>
                                            \o r.err),
                            secretErr(r.err))
                ELSE /\ stderr' = stderr \o log \o debugLog(<<"Successfully retrieved secret">>)
                     /\ pc' = "output"
                     /\ UNCHANGED <<exitCode, exitAt>>
    /\ UNCHANGED <<env, args, config, credential, stdout, call, result>>

\* fmt.Println in place of fmt.Print
GetSecretOutput_println ==
    /\ pc = "output"
    /\ IF response.Value = <<>>
       THEN /\ Return("novalue", debugLog(<<"Secret '", secretName, "' has no value">>), noValueErr)
            /\ stdout' = stdout
       ELSE /\ stdout' = Append(stdout, <<response.Value[1], "\n">>)
            /\ stderr' = stderr
                         \o debugLog(<<"Secret retrieved successfully, outputting to stdout">>)
                         \o debugLog(<<"Operation completed successfully">>)
            /\ exitCode' = 0
            /\ exitAt' = "ok"
            /\ pc' = "exit"
    /\ UNCHANGED <<env, args, config, credential, err, calls, response, call, result>>

\* the value is printed before it is checked
GetSecretOutput_printFirst ==
    /\ pc = "output"
    /\ IF response.Value = <<>>
       THEN /\ Return("novalue", debugLog(<<"Secret '", secretName, "' has no value">>), noValueErr)
            /\ stdout' = Append(stdout, <<"">>)
       ELSE /\ stdout' = Append(stdout, <<response.Value[1]>>)
            /\ stderr' = stderr
                         \o debugLog(<<"Secret retrieved successfully, outputting to stdout">>)
                         \o debugLog(<<"Operation completed successfully">>)
            /\ exitCode' = 0
            /\ exitAt' = "ok"
            /\ pc' = "exit"
    /\ UNCHANGED <<env, args, config, credential, err, calls, response, call, result>>

\* a response without a value is printed as the empty string
GetSecretOutput_noNilCheck ==
    /\ pc = "output"
    /\ stdout' = Append(stdout, IF response.Value = <<>> THEN <<"">> ELSE <<response.Value[1]>>)
    /\ stderr' = stderr
                 \o debugLog(<<"Secret retrieved successfully, outputting to stdout">>)
                 \o debugLog(<<"Operation completed successfully">>)
    /\ exitCode' = 0
    /\ exitAt' = "ok"
    /\ pc' = "exit"
    /\ UNCHANGED <<env, args, config, credential, err, calls, response, call, result>>

GetSecretOutput ==
    /\ pc = "output"
    /\ IF response.Value = <<>>
       THEN /\ Return("novalue", debugLog(<<"Secret '", secretName, "' has no value">>), noValueErr)
            /\ stdout' = stdout
       ELSE /\ stdout' = Append(stdout, <<response.Value[1]>>)
            /\ stderr' = stderr
                         \o debugLog(<<"Secret retrieved successfully, outputting to stdout">>)
                         \o debugLog(<<"Operation completed successfully">>)
            /\ exitCode' = 0
            /\ exitAt' = "ok"
            /\ pc' = "exit"
    /\ UNCHANGED <<env, args, config, credential, err, calls, response, call, result>>

----------------------------------------------------------------------------
(* A helper called on its own *)

CallGetEnvOrDefaultBool ==
    /\ pc = "helper"
    /\ call.fn = "getEnvOrDefaultBool"
    /\ result' = <<getEnvOrDefaultBool(env, call.envVar, call.defaultValue)>>
    /\ pc' = "returned"
    /\ UNCHANGED <<env, args, config, credential, err, calls, stdout, stderr,
                   response, exitCode, exitAt, call>>

----------------------------------------------------------------------------
(* Specifications *)

Next ==
    \/ MainRegisterFlags
    \/ CobraExecute
    \/ GetSecretCredential
    \/ GetSecretNewClient
    \/ GetSecretFetch
    \/ GetSecretOutput

Spec == Init /\ [][Next]_vars

NextResolve ==
    \/ MainRegisterFlags
    \/ CobraExecute

SpecResolve == InitResolve /\ [][NextResolve]_vars

NextHelper == CallGetEnvOrDefaultBool

SpecHelper == InitHelper /\ [][NextHelper]_vars

----------------------------------------------------------------------------
(* Properties of createCredential, read in the states right after it       *)
(* returns: credential and err hold its results and calls holds exactly    *)
(* the library calls it made.                                              *)

afterCreateCredential == pc = "newClient" \/ (pc = "exit" /\ exitAt = "credential")

SupportedMethods == {"default", "system-mi", "user-mi", "service-principal"}

\* the fields the chosen method requires are all present
RequiredPresent ==
    CASE authMethod \in {"default", "system-mi"} -> TRUE
      [] authMethod = "user-mi" -> userAssignedID # "" \/ clientID # ""
      [] authMethod = "service-principal" ->
             clientID # "" /\ clientSecret # "" /\ tenantID # ""
      [] OTHER -> FALSE

CallsTo(fn) == {i \in 1..Len(calls) : calls[i].fn = fn}

Constructors == {"azidentity.NewDefaultAzureCredential",
                 "azidentity.NewManagedIdentityCredential",
                 "azidentity.NewClientSecretCredential"}

ConstructorCalls == {i \in 1..Len(calls) : calls[i].fn \in Constructors}

\* C1: service-principal with any of clientID, clientSecret, tenantID empty
\* returns a nil credential and an error containing "requires --client-id,
\* --client-secret, and --tenant-id", and constructs no client-secret credential.
C1_ServicePrincipalMissing ==
    (/\ afterCreateCredential
     /\ authMethod = "service-principal"
     /\ (clientID = "" \/ clientSecret = "" \/ tenantID = ""))
    => /\ credential = NilCred
       /\ Contains(err, "requires --client-id, --client-secret, and --tenant-id")
       /\ CallsTo("azidentity.NewClientSecretCredential") = {}

C1_Witness ==
    /\ afterCreateCredential
    /\ authMethod = "service-principal"
    /\ clientID # "" /\ clientSecret = "" /\ tenantID # ""
    /\ Contains(err, "requires --client-id, --client-secret, and --tenant-id")

\* C2: user-mi with userAssignedID or clientID non-empty constructs a managed
\* identity credential scoped to exactly one identity: userAssignedID when it is
\* non-empty, clientID only when userAssignedID is empty.
C2_UserMIIdentity ==
    (/\ afterCreateCredential
     /\ authMethod = "user-mi"
     /\ (userAssignedID # "" \/ clientID # ""))
    => /\ Len(calls) = 1
       /\ calls[1].fn = "azidentity.NewManagedIdentityCredential"
       /\ Len(calls[1].args) = 1
       /\ userAssignedID # "" => calls[1].args[1] = userAssignedID
       /\ userAssignedID = "" => calls[1].args[1] = clientID

C2_Witness ==
    /\ afterCreateCredential
    /\ authMethod = "user-mi"
    /\ userAssignedID # "" /\ clientID # "" /\ clientID # userAssignedID
    /\ calls = << [fn |-> "azidentity.NewManagedIdentityCredential",
                   args |-> <<userAssignedID>>] >>

\* C3: user-mi with userAssignedID and clientID both empty returns a nil
\* credential and an error containing "requires --client-id or
\* --user-assigned-id", whatever clientSecret and tenantID are, and constructs
\* no managed-identity credential.
C3_UserMIMissing ==
    (/\ afterCreateCredential
     /\ authMethod = "user-mi"
     /\ userAssignedID = "" /\ clientID = "")
    => /\ credential = NilCred
       /\ Contains(err, "requires --client-id or --user-assigned-id")
       /\ CallsTo("azidentity.NewManagedIdentityCredential") = {}

C3_Witness ==
    /\ afterCreateCredential
    /\ authMethod = "user-mi"
    /\ userAssignedID = "" /\ clientID = ""
    /\ clientSecret # "" /\ tenantID # ""
    /\ Contains(err, "requires --client-id or --user-assigned-id")

\* C4: an authMethod that is not exactly one of the four supported strings
\* returns a nil credential and an error containing "unsupported authentication
\* method" followed by the offending value, and calls no constructor.
C4_Unsupported ==
    (afterCreateCredential /\ authMethod \notin SupportedMethods)
    => /\ credential = NilCred
       /\ Contains(err, "unsupported authentication method")
       /\ err[Len(err)] = authMethod
       /\ ConstructorCalls = {}

C4_Witness ==
    /\ afterCreateCredential
    /\ authMethod = "Default"
    /\ err = <<"unsupported authentication method", ": ", "Default">>

\* the call the chosen method delegates to when its required fields are present
ExpectedCalls ==
    CASE authMethod = "default" ->
             {[fn |-> "azidentity.NewDefaultAzureCredential", args |-> <<>>]}
      [] authMethod = "system-mi" ->
             {[fn |-> "azidentity.NewManagedIdentityCredential", args |-> <<>>]}
      [] authMethod = "user-mi" ->
             {[fn |-> "azidentity.NewManagedIdentityCredential", args |-> <<id>>] :
                 id \in {userAssignedID, clientID} \ {""}}
      [] authMethod = "service-principal" ->
             {[fn |-> "azidentity.NewClientSecretCredential",
               args |-> <<tenantID, clientID, clientSecret>>]}
      [] OTHER -> {}

\* err is one of createCredential's own parameter errors
ValidationError ==
    /\ err # NoErr
    /\ err[1] \in {"user-assigned managed identity ",
                   "service principal authentication ",
                   "unsupported authentication method"}

\* at most one constructor call, and none next to a validation error
OneConstructorOrError ==
    afterCreateCredential
    => /\ Cardinality(ConstructorCalls) <= 1
       /\ ValidationError => calls = <<>>

\* C5 as stated: with the required fields of a supported method supplied,
\* createCredential returns no validation error, calls exactly the constructor
\* of that method and returns its non-nil handle; never two constructor calls,
\* never a constructor call together with a validation error.
C5_AlwaysHandle ==
    /\ OneConstructorOrError
    /\ (afterCreateCredential /\ RequiredPresent)
       => /\ Len(calls) = 1
          /\ calls[1] \in ExpectedCalls
          /\ err = NoErr
          /\ credential = [ctor |-> calls[1].fn, args |-> calls[1].args]

\* C5 amended: as C5, but what is returned is the constructor's result
\* unchanged: its handle when it succeeds, a nil credential with the
\* constructor's own error (not a validation error) when it fails.
C5_ConstructorResult ==
    /\ OneConstructorOrError
    /\ (afterCreateCredential /\ RequiredPresent)
       => /\ Len(calls) = 1
          /\ calls[1] \in ExpectedCalls
          /\ ~ValidationError
          /\ \/ err = NoErr /\ credential = [ctor |-> calls[1].fn, args |-> calls[1].args]
             \/ err = <<"azidentity: ", calls[1].fn, " failed">> /\ credential = NilCred

C5_Witness ==
    /\ afterCreateCredential
    /\ authMethod = "service-principal"
    /\ err = NoErr
    /\ credential = [ctor |-> "azidentity.NewClientSecretCredential",
                     args |-> <<"test-tenant-id", "test-client-id", "test-client-secret">>]

\* C6: when the fields required by the chosen method are not all present (or
\* the method is unsupported), no Key Vault client is created and GetSecret is
\* never called: the run ends at createCredential's error with exit code 1.
C6_FailsBeforeNetwork ==
    (pc \notin {"main", "execute"} /\ ~RequiredPresent)
    => /\ pc \in {"getSecret", "exit"}
       /\ CallsTo("azsecrets.NewClient") = {}
       /\ CallsTo("client.GetSecret") = {}
       /\ (pc = "exit" /\ exitAt \notin {"help", "version"})
          => exitCode = 1 /\ stdout = <<>>

C6_Witness ==
    /\ pc = "exit" /\ exitAt = "credential"
    /\ ~RequiredPresent
    /\ ValidationError
    /\ calls = <<>>

----------------------------------------------------------------------------
(* Properties of the configuration resolver *)

\* the variable a flag is bound to
Effective(flag) ==
    CASE flag = "vault-url" -> vaultURL
      [] flag = "secret" -> secretName
      [] flag = "auth" -> authMethod
      [] flag = "client-id" -> clientID
      [] flag = "client-secret" -> clientSecret
      [] flag = "tenant-id" -> tenantID
      [] flag = "user-assigned-id" -> userAssignedID

flagsParsed == pc \notin {"main", "execute"}

\* C7: each of the seven string settings is the flag's value when the flag is
\* passed, else the environment variable's value when that is non-empty, else
\* "default" for auth and "" for the others; a variable set to "" counts as unset.
C7_Precedence ==
    flagsParsed
    => \A flag \in StringFlags :
         Effective(flag) =
           IF flag \in DOMAIN args THEN args[flag]
           ELSE IF EnvName(flag) \in DOMAIN env /\ env[EnvName(flag)] # ""
                THEN env[EnvName(flag)]
           ELSE IF flag = "auth" THEN "default" ELSE ""

C7_Witness ==
    /\ flagsParsed
    /\ "auth" \in DOMAIN args /\ "AZURE_AUTH_METHOD" \in DOMAIN env
    /\ env["AZURE_AUTH_METHOD"] = "system-mi"
    /\ authMethod = "user-mi"

\* C8 as stated: a run without --vault-url and --secret whose
\* AZURE_KEYVAULT_URL and AZURE_KEYVAULT_SECRET_NAME are both non-empty is not
\* rejected for a missing required flag and goes on to credential selection.
C8_EnvSatisfiesRequired ==
    (/\ flagsParsed
     /\ ~Changed("vault-url") /\ ~Changed("secret")
     /\ ~Changed("help") /\ ~Changed("version")
     /\ Getenv(env, "AZURE_KEYVAULT_URL") # ""
     /\ Getenv(env, "AZURE_KEYVAULT_SECRET_NAME") # "")
    => /\ exitAt # "required"
       /\ vaultURL = env["AZURE_KEYVAULT_URL"]
       /\ secretName = env["AZURE_KEYVAULT_SECRET_NAME"]

----------------------------------------------------------------------------
(* Properties of getEnvOrDefaultBool called on its own *)

called == pc = "returned"
envValue == Getenv(env, call.envVar)

\* C9: for a non-empty value and either default, the result is true exactly
\* for the literals "true", "1", "yes", "on" and false for every other value,
\* never the default.
C9_BoolLiterals ==
    (called /\ envValue # "")
    => /\ envValue \in {"true", "1", "yes", "on"} => result = <<TRUE>>
       /\ envValue \notin {"true", "1", "yes", "on"} => result = <<FALSE>>

C9_Witness ==
    /\ called
    /\ envValue = "TRUE" /\ call.defaultValue = TRUE
    /\ result = <<FALSE>>

\* C10 as stated: the result is the provided default whenever the variable is
\* set to "false", is unset, or is empty.
C10_FalseGivesDefault ==
    (called /\ (envValue = "" \/ envValue = "false"))
    => result = <<call.defaultValue>>

\* C10 amended: the result is the provided default whenever the variable is
\* unset or empty; set to "false" the result is false whatever the default.
C10_UnsetGivesDefault ==
    called
    => /\ envValue = "" => result = <<call.defaultValue>>
       /\ envValue = "false" => result = <<FALSE>>

C10_Witness ==
    /\ called
    /\ envValue = "false" /\ call.defaultValue = TRUE
    /\ result = <<FALSE>>

----------------------------------------------------------------------------
(* Properties of a whole run *)

\* the secret was fetched and printed: getSecret returned nil
fetchedAndPrinted == pc = "exit" /\ exitAt = "ok"

\* a line of the debug logger
IsDebugLine(line) == line[1] = "[DEBUG] azkeyget: "

\* a line carrying an error (cobra's or main's)
IsErrorLine(line) == line[1] = "Error: "

\* C11: in every run that fetched the secret, with debug on or off, standard
\* output has exactly one write and it is exactly the secret's value; debug,
\* diagnostic and error text is on standard error only.
C11_OutputChannels ==
    /\ fetchedAndPrinted
       => /\ stdout = << <<response.Value[1]>> >>
          /\ \A i \in 1..Len(stderr) : IsDebugLine(stderr[i])
          /\ debug => stderr # <<>>
    /\ \A i \in 1..Len(stdout) : ~IsDebugLine(stdout[i]) /\ ~IsErrorLine(stdout[i])

C11_Witness ==
    /\ fetchedAndPrinted
    /\ debug
    /\ stdout = << <<"s3cr3t">> >>
    /\ Len(stderr) > 1

\* C12: a run that ends in failure has written nothing to standard output.
C12_NoOutputOnFailure ==
    (exitCode = 1 \/ (pc = "exit" /\ exitAt \notin {"ok", "help", "version"}))
    => stdout = <<>>

C12_Witness ==
    /\ pc = "exit" /\ exitAt = "novalue"
    /\ exitCode = 1
    /\ stdout = <<>>

\* getSecret ran to its end: the vault answered with a value and it was printed
Succeeded ==
    /\ CallsTo("client.GetSecret") # {}
    /\ err = NoErr
    /\ response.Value # <<>>
    /\ stdout = <<response.Value>>

\* C13: the exit code is 0 exactly when the secret was fetched and printed or
\* help/version was requested, and 1 for every error outcome (missing
\* required flag, credential, client, fetch, secret without value); there is
\* no other exit code.
C13_ExitCodes ==
    pc = "exit"
    => /\ exitCode \in {0, 1}
       /\ exitCode = 0 <=> (Succeeded \/ Changed("help") \/ Changed("version"))
       /\ exitAt \in {"required", "credential", "client", "secret", "novalue"}
          => exitCode = 1

C13_Witness ==
    /\ pc = "exit" /\ exitAt = "secret"
    /\ exitCode = 1
    /\ err = <<"azsecrets: ", "GetSecret failed">>

\* the line main writes for the error Execute returned
mainErrorLine == stderr[Len(stderr)]

\* C14 as stated: the error of each step is written to standard error wrapped
\* in the step's context text: "failed to create credential", "failed to
\* create client", "failed to get secret '<name>'", the underlying error
\* following unchanged.
C14_ContextAsStated ==
    /\ (pc = "exit" /\ exitAt = "credential")
       => mainErrorLine = <<"Error: ", "failed to create credential", ": ">> \o err \o <<"\n">>
    /\ (pc = "exit" /\ exitAt = "client")
       => /\ Contains(mainErrorLine, "failed to create client")
          /\ SubSeq(mainErrorLine, Len(mainErrorLine) - Len(err), Len(mainErrorLine) - 1) = err
    /\ (pc = "exit" /\ exitAt = "secret")
       => mainErrorLine = <<"Error: ", "failed to get secret '", secretName, "'", ": ">>
                          \o err \o <<"\n">>

\* C14 amended: the context text of a client-creation error is "failed to
\* create Key Vault client"; the other two are as stated.
C14_Context ==
    /\ (pc = "exit" /\ exitAt = "credential")
       => mainErrorLine = <<"Error: ", "failed to create credential", ": ">> \o err \o <<"\n">>
    /\ (pc = "exit" /\ exitAt = "client")
       => mainErrorLine = <<"Error: ", "failed to create Key Vault client", ": ">>
                          \o err \o <<"\n">>
    /\ (pc = "exit" /\ exitAt = "secret")
       => mainErrorLine = <<"Error: ", "failed to get secret '", secretName, "'", ": ">>
                          \o err \o <<"\n">>

C14_Witness ==
    /\ pc = "exit" /\ exitAt = "client"
    /\ err = <<"azsecrets: ", "NewClient failed">>
    /\ ContainsSeq(mainErrorLine, <<"failed to create Key Vault client", ": ",
                                    "azsecrets: ", "NewClient failed">>)

\* every line written by the run, on either channel
Emitted == {stderr[i] : i \in 1..Len(stderr)} \cup {stdout[i] : i \in 1..Len(stdout)}

RequiredMessage(names) ==
    \E i \in 1..Len(stderr) :
        /\ IsErrorLine(stderr[i])
        /\ ContainsSeq(stderr[i], <<"required flag(s) ">> \o names \o <<" not set">>)

noEnvironment == DOMAIN env = {}
plainRun == ~Changed("help") /\ ~Changed("version")

\* C16: with no environment variable set, a run with --secret but without
\* --vault-url exits non-zero with a required-flag message naming "vault-url",
\* and a run with --vault-url but without --secret one naming "secret"; no
\* credential is created and no library call is made.
C16_RequiredFlags ==
    (pc = "exit" /\ noEnvironment /\ plainRun)
    => /\ (Changed("secret") /\ ~Changed("vault-url"))
          => /\ exitCode = 1
             /\ RequiredMessage(<<"\"vault-url\"">>)
             /\ credential = NilCred /\ calls = <<>>
       /\ (Changed("vault-url") /\ ~Changed("secret"))
          => /\ exitCode = 1
             /\ RequiredMessage(<<"\"secret\"">>)
             /\ credential = NilCred /\ calls = <<>>

C16_Witness ==
    /\ pc = "exit" /\ noEnvironment /\ plainRun
    /\ Changed("vault-url") /\ ~Changed("secret")
    /\ exitCode = 1
    /\ RequiredMessage(<<"\"secret\"">>)

\* the library calls of a run are a prefix of: constructor, NewClient, GetSecret
CallOrder ==
    /\ Len(calls) <= 3
    /\ \A i \in 1..Len(calls) :
         /\ calls[i].fn \in Constructors => i = 1
         /\ calls[i].fn = "azsecrets.NewClient" => i = 2 /\ calls[1].fn \in Constructors
         /\ calls[i].fn = "client.GetSecret" => i = 3 /\ calls[2].fn = "azsecrets.NewClient"
    /\ (stdout # <<>> /\ plainRun)
       => Len(stdout) = 1 /\ Len(calls) = 3 /\ calls[3].fn = "client.GetSecret"
    /\ (pc = "exit" /\ exitAt = "credential") => Len(calls) <= 1
    /\ (pc = "exit" /\ exitAt = "client") => Len(calls) = 2
    /\ (pc = "exit" /\ exitAt \in {"secret", "novalue"}) => Len(calls) = 3 /\ stdout = <<>>

\* a step after createCredential runs only when the step before it returned
\* no error, and nothing happens after the run has ended
StepAfterSuccess ==
    /\ (calls' # calls /\ pc # "getSecret") => err = NoErr
    /\ stdout' # stdout /\ pc = "output" => err = NoErr /\ response.Value # <<>>
    /\ pc = "exit" => UNCHANGED vars

\* C17: the steps of a run happen in the order createCredential, NewClient,
\* GetSecret, write to standard output; each at most once and only if every
\* earlier step succeeded; the first failing step ends the run, without retry.
C17_StepOrder == [](CallOrder) /\ [][StepAfterSuccess]_vars

C17_Witness ==
    /\ fetchedAndPrinted
    /\ Len(calls) = 3
    /\ calls[1].fn \in Constructors
    /\ calls[2].fn = "azsecrets.NewClient"
    /\ calls[3].fn = "client.GetSecret"
    /\ Len(stdout) = 1

\* C18: GetSecret returned no error but the response carries no value: the run
\* fails with "secret '<name>' has no value", exits non-zero and writes
\* nothing to standard output.
C18_NoValue ==
    (/\ pc = "exit"
     /\ CallsTo("client.GetSecret") # {}
     /\ err = NoErr
     /\ response.Value = <<>>)
    => /\ exitCode = 1
       /\ stdout = <<>>
       /\ mainErrorLine = <<"Error: ", "secret '", secretName, "' has no value", "\n">>

C18_Witness ==
    /\ pc = "exit"
    /\ CallsTo("client.GetSecret") # {}
    /\ err = NoErr /\ response.Value = <<>>
    /\ exitCode = 1
    /\ debug
    /\ \E i \in 1..Len(stderr) :
         stderr[i] = <<"[DEBUG] azkeyget: ", "Secret '", secretName, "' has no value">>

\* what createCredential calls, written over the fields its method requires only
CallsOfRequiredFields ==
    CASE authMethod = "default" ->
             << [fn |-> "azidentity.NewDefaultAzureCredential", args |-> <<>>] >>
      [] authMethod = "system-mi" ->
             << [fn |-> "azidentity.NewManagedIdentityCredential", args |-> <<>>] >>
      [] authMethod = "user-mi" ->
             IF userAssignedID # ""
             THEN << [fn |-> "azidentity.NewManagedIdentityCredential",
                      args |-> <<userAssignedID>>] >>
             ELSE IF clientID # ""
             THEN << [fn |-> "azidentity.NewManagedIdentityCredential",
                      args |-> <<clientID>>] >>
             ELSE <<>>
      [] authMethod = "service-principal" ->
             IF clientID # "" /\ clientSecret # "" /\ tenantID # ""
             THEN << [fn |-> "azidentity.NewClientSecretCredential",
                      args |-> <<tenantID, clientID, clientSecret>>] >>
             ELSE <<>>
      [] OTHER -> <<>>

\* the validation error of a method, which names no field value
ErrorOfMethod ==
    CASE authMethod = "user-mi" ->
             <<"user-assigned managed identity ", "requires --client-id or --user-assigned-id">>
      [] authMethod = "service-principal" ->
             <<"service principal authentication ",
               "requires --client-id, --client-secret, and --tenant-id">>
      [] OTHER -> <<"unsupported authentication method", ": ", authMethod>>

OutcomeOfRequiredFields ==
    afterCreateCredential
    => /\ calls = CallsOfRequiredFields
       /\ calls = <<>> => err = ErrorOfMethod /\ credential = NilCred
       /\ (calls # <<>> /\ err = NoErr)
          => credential = [ctor |-> calls[1].fn, args |-> calls[1].args]

\* C19: parameters the chosen method does not require have no effect on
\* createCredential's outcome (default and system-mi: none of the four IDs;
\* user-mi: not clientSecret, tenantID; service-principal: not
\* userAssignedID), and createCredential leaves the configuration unchanged.
C19_Frame ==
    /\ [](OutcomeOfRequiredFields)
    /\ [][pc = "getSecret" => UNCHANGED <<config, env, args>>]_vars

C19_Witness ==
    /\ afterCreateCredential
    /\ authMethod = "system-mi"
    /\ clientID # "" /\ clientSecret # "" /\ tenantID # "" /\ userAssignedID # ""
    /\ calls = << [fn |-> "azidentity.NewManagedIdentityCredential", args |-> <<>>] >>

====
